---------------------------- MODULE Spec2Model ----------------------------
(***************************************************************************)
(* Model of the parquet viewer (src/src/main.rs): main, load_preview, the  *)
(* range fetcher (load_batches, batches_to_rows, rows_for_range) and the   *)
(* viewport controller PreviewView (load_visible_rows, scroll_view,        *)
(* update_rows_for_resize, the cell click listener).                       *)
(*                                                                         *)
(* A file is its number of rows; row i of the file holds the typed values  *)
(* FileRow(i).  Cell values are of types whose formatting cannot fail.     *)
(* Heights are whole pixels.  Every storage access either succeeds or      *)
(* fails, chosen by the environment; the reader hands the selected rows    *)
(* back in one batch or in two, cut at a place the environment chooses.    *)
(***************************************************************************)
EXTENDS Integers, Sequences, FiniteSets, TLC

VARIABLES
    pc,             \* position of main: "main", "loaded", "ui", "exit_ok", "exit_err"
    file_rows,      \* the file on disk: its number of rows
    args,           \* Args: [rows, headless]
    preview,        \* DataPreview built by load_preview, or NoPreview
    visible_rows,   \* PreviewView.visible_rows
    visible_range,  \* PreviewView.visible_range: [start, end]
    table_height,   \* PreviewView.table_height
    rows_per_view,  \* PreviewView.rows_per_view
    selected_cell,  \* PreviewView.selected_cell: <<row, col>> or NoCell
    output,         \* what the user has been shown: "none", "stdout", "window"
    last,           \* the last event handled: its input, the page size before it,
                    \* the range it fetched, its storage reads and their outcome,
                    \* and the outcome of the event before it
    walk,           \* number of Scroll(+1) events of a walk from the top
    call            \* the last direct call of a fetch function and its result

vars == <<pc, file_rows, args, preview, visible_rows, visible_range, table_height,
          rows_per_view, selected_cell, output, last, walk, call>>

-----------------------------------------------------------------------------
(* Bounds of the model *)

MaxRows == 9
MaxDelta == 2
MaxBatchRows == 3
MaxBatches == 2
MaxLimit == 4

(* Program constants *)

ROW_HEIGHT == 28
MIN_TABLE_HEIGHT == 200
TABLE_PADDING == 260
DefaultRows == 20
DefaultWindowHeight == 700

(* The columns of the files: id (never null) and name (nullable). *)
ColumnNames == <<"id", "name">>

RowLimits == {2, DefaultRows}
WindowHeights == {0, 484, DefaultWindowHeight}
Deltas == (-MaxDelta..MaxDelta) \ {0}

NoPreview == [row_count |-> -1]
NoCell == <<>>
NoCall == [fn |-> "none"]
NoEvent ==
    [ev |-> "none", arg |-> 0, rpv |-> 0, fetch |-> <<>>, reads |-> 0, ok |-> TRUE,
     prev_ok |-> TRUE]

Min(a, b) == IF a < b THEN a ELSE b
Max(a, b) == IF a > b THEN a ELSE b
SatSub(a, b) == IF a > b THEN a - b ELSE 0

-----------------------------------------------------------------------------
(* The file's content and the rendering of a cell *)

NullValue == [null |-> TRUE, v |-> 0]
Value(n) == [null |-> FALSE, v |-> n]

FileRow(i) == <<Value(i), IF i % 4 = 3 THEN NullValue ELSE Value(100 + i)>>

ValueToString(value) == IF value.null THEN "null" ELSE ToString(value.v)

RenderRow(row) == [c \in 1..Len(row) |-> ValueToString(row[c])]

-----------------------------------------------------------------------------
(* Range fetcher *)

(* The rows the reader selects: skip(start), select(limit), over the file. *)
SelectedRows(file, start, limit) ==
    [i \in 1..Min(limit, SatSub(file, start)) |-> FileRow(start + i - 1)]

(* The reader's batches: the selected rows, in one batch or cut in two. *)
ReaderBatches(file, start, limit, cut) ==
    LET selected == SelectedRows(file, start, limit)
        n == Len(selected)
    IN  IF n = 0 THEN <<>>
        ELSE IF cut <= 0 \/ cut >= n THEN <<selected>>
        ELSE <<SubSeq(selected, 1, cut), SubSeq(selected, cut + 1, n)>>

(* Mutation: load_batches has no early return. *)
NothingToLoad_Never(limit) == FALSE

(* The early return of load_batches. *)
NothingToLoad(limit) == limit = 0

(* load_batches: [ok, batches, reads]; reads counts the opens of the file. *)
LoadBatches(file, start, limit, ok, cut) ==
    IF NothingToLoad(limit) THEN [ok |-> TRUE, batches |-> <<>>, reads |-> 0]
    ELSE IF ~ok THEN [ok |-> FALSE, batches |-> <<>>, reads |-> 1]
    ELSE [ok |-> TRUE, batches |-> ReaderBatches(file, start, limit, cut), reads |-> 1]

(* The quota test made after each pushed row. *)
QuotaReached(rows, row_limit) == Len(rows) >= row_limit

RECURSIVE RowLoop(_, _, _, _)
(* The inner loop of batches_to_rows over one batch: [rows, done]. *)
RowLoop(batch, row_index, rows, row_limit) ==
    IF row_index > Len(batch) THEN [rows |-> rows, done |-> FALSE]
    ELSE LET pushed == Append(rows, RenderRow(batch[row_index]))
         IN  IF QuotaReached(pushed, row_limit)
             THEN [rows |-> pushed, done |-> TRUE]
             ELSE RowLoop(batch, row_index + 1, pushed, row_limit)

RECURSIVE BatchLoop(_, _, _, _)
(* The outer loop of batches_to_rows. *)
BatchLoop(batches, b, rows, row_limit) ==
    IF b > Len(batches) THEN rows
    ELSE LET r == RowLoop(batches[b], 1, rows, row_limit)
         IN  IF r.done THEN r.rows ELSE BatchLoop(batches, b + 1, r.rows, row_limit)

BatchesToRows(batches, row_limit) == BatchLoop(batches, 1, <<>>, row_limit)

RECURSIVE PrettyFormatBatches(_)
(* pretty_format_batches: every row of every batch, as text, in order. *)
PrettyFormatBatches(batches) ==
    IF batches = <<>> THEN <<>>
    ELSE [i \in 1..Len(batches[1]) |-> RenderRow(batches[1][i])]
         \o PrettyFormatBatches(Tail(batches))

(* Mutation: the request runs to the end of the file whatever the range's end. *)
Available_ToFileEnd(row_count, start, end) == row_count - start

(* The number of rows rows_for_range asks the reader for. *)
Available(row_count, start, end) == Min(row_count - start, SatSub(end, start))

(* Mutation: rows_for_range has no early return. *)
StartOutOfBounds_Never(start, row_count) == FALSE

(* The early return of rows_for_range. *)
StartOutOfBounds(start, row_count) == start >= row_count

(* DataPreview::rows_for_range: [ok, rows, reads]. *)
RowsForRange(p, file, start, end, ok, cut) ==
    IF StartOutOfBounds(start, p.row_count) THEN [ok |-> TRUE, rows |-> <<>>, reads |-> 0]
    ELSE LET available == Available(p.row_count, start, end)
             b == LoadBatches(file, start, available, ok, cut)
         IN  IF ~b.ok THEN [ok |-> FALSE, rows |-> <<>>, reads |-> b.reads]
             ELSE [ok |-> TRUE, rows |-> BatchesToRows(b.batches, available),
                   reads |-> b.reads]

(* Mutation: the preview loads the whole file. *)
PreviewLimit_WholeFile(row_limit, row_count) == row_count

(* preview_limit of load_preview. *)
PreviewLimit(row_limit, row_count) == Min(row_limit, row_count)

(* load_preview: [ok, preview, reads].  fault names the step that fails. *)
LoadPreviewResult(file, row_limit, fault, cut) ==
    IF fault \in {"open", "metadata", "columns"}
    THEN [ok |-> FALSE, preview |-> NoPreview, reads |-> 0]
    ELSE LET row_count == file
             column_count == Len(ColumnNames)
             columns == IF file = 0 THEN <<>> ELSE ColumnNames
             preview_limit == PreviewLimit(row_limit, row_count)
             b == LoadBatches(file, 0, preview_limit, fault # "batches", cut)
         IN  IF ~b.ok THEN [ok |-> FALSE, preview |-> NoPreview, reads |-> b.reads]
             ELSE [ok |-> TRUE, reads |-> b.reads,
                   preview |->
                     [row_count |-> row_count,
                      column_count |-> column_count,
                      columns |-> columns,
                      rows |-> BatchesToRows(b.batches, preview_limit),
                      formatted_rows |->
                         IF b.batches = <<>> THEN <<"(no rows found)">>
                         ELSE PrettyFormatBatches(b.batches)]]

Faults == {"none", "open", "metadata", "columns", "batches"}

-----------------------------------------------------------------------------
(* Viewport controller *)

(* Mutation: the quotient is rounded up. *)
RowsPerView_RoundsUp(height) == Max((height + ROW_HEIGHT - 1) \div ROW_HEIGHT, 1)

RowsPerView(height) == Max(height \div ROW_HEIGHT, 1)

TableHeightForWindow(window_height) ==
    Max(window_height - TABLE_PADDING, MIN_TABLE_HEIGHT)

(* Mutation: the empty file is not treated apart. *)
NoRows_Never(row_count) == FALSE

(* The empty-file test at the head of load_visible_rows. *)
NoRows(row_count) == row_count = 0

(* The start load_visible_rows fetches from. *)
ClampStart(start, row_count) == Min(start, SatSub(row_count, 1))

(* Mutation: the end of the range is not clamped to the file. *)
WindowEnd_Unclamped(start, rpv, row_count) == start + rpv

(* Mutation: the end of the range is taken inclusive. *)
WindowEnd_Inclusive(start, rpv, row_count) == Min(start + rpv + 1, row_count)

(* The end of the range load_visible_rows fetches. *)
WindowEnd(start, rpv, row_count) == Min(start + rpv, row_count)

(* Mutation: a failed fetch clears the rows and leaves the range. *)
WindowOnError_ClearsRows(range, rows) == [range |-> range, rows |-> <<>>]

(* Mutation: a failed fetch empties the window. *)
WindowOnError_EmptiesWindow(range, rows) ==
    [range |-> [start |-> 0, end |-> 0], rows |-> <<>>]

(* The window load_visible_rows keeps when the fetch fails. *)
WindowOnError(range, rows) == [range |-> range, rows |-> rows]

(* The window load_visible_rows installs when the fetch succeeds. *)
WindowOnSuccess(start, rows) ==
    [range |-> [start |-> start, end |-> start + Len(rows)], rows |-> rows]

(* PreviewView::load_visible_rows with page size rpv:                      *)
(* [range, rows, fetch, reads, ok], fetch the range asked of               *)
(* rows_for_range.                                                         *)
LoadVisibleRows(requested, rpv, ok, cut) ==
    IF NoRows(preview.row_count)
    THEN [range |-> [start |-> 0, end |-> 0], rows |-> <<>>,
          fetch |-> <<>>, reads |-> 0, ok |-> TRUE]
    ELSE LET start == ClampStart(requested, preview.row_count)
             end == WindowEnd(start, rpv, preview.row_count)
             f == RowsForRange(preview, file_rows, start, end, ok, cut)
             w == IF f.ok THEN WindowOnSuccess(start, f.rows)
                  ELSE WindowOnError(visible_range, visible_rows)
         IN  [range |-> w.range, rows |-> w.rows,
              fetch |-> <<start, end>>, reads |-> f.reads, ok |-> f.ok]

(* The window and the event record when a handler does not load. *)
NoLoad ==
    [range |-> visible_range, rows |-> visible_rows,
     fetch |-> <<>>, reads |-> 0, ok |-> TRUE]

(* Mutation: the last start is the last row, not the last full page. *)
MaxStart_LastRow(row_count, rpv) == SatSub(row_count, 1)

MaxStart(row_count, rpv) == Max(SatSub(row_count, rpv), 0)

(* Mutation: the upper clamp is missing. *)
TargetStart_NoUpperClamp(current_start, delta_rows, max_start) ==
    LET sum == current_start + delta_rows
    IN  IF sum < 0 THEN 0 ELSE sum

(* target_start of scroll_view, after both clamps. *)
TargetStart(current_start, delta_rows, max_start) ==
    LET sum == current_start + delta_rows
        low == IF sum < 0 THEN 0 ELSE sum
    IN  IF low > max_start THEN max_start ELSE low

(* Mutation: scroll_view loads even when the start does not move. *)
ScrollLoads_Always(target_start, current_start) == TRUE

(* Whether scroll_view loads the target. *)
ScrollLoads(target_start, current_start) == target_start # current_start

(* PreviewView::scroll_view: the result of the load, or NoLoad. *)
ScrollView(delta_rows, ok, cut) ==
    IF preview.row_count = 0 THEN NoLoad
    ELSE LET max_start == MaxStart(preview.row_count, rows_per_view)
             target_start == TargetStart(visible_range.start, delta_rows, max_start)
         IN  IF ScrollLoads(target_start, visible_range.start)
             THEN LoadVisibleRows(target_start, rows_per_view, ok, cut)
             ELSE NoLoad

(* Mutation: a resize reloads from the top of the file. *)
ResizeStart_Top(range) == 0

(* The start update_rows_for_resize reloads from. *)
ResizeStart(range) == range.start

(* Mutation: a resize reloads only when the page size changed. *)
ResizeLoads_OnPageChange(old_rpv, new_rpv) == old_rpv # new_rpv

(* Whether update_rows_for_resize reloads the window. *)
ResizeLoads(old_rpv, new_rpv) == TRUE

(* PreviewView::update_rows_for_resize, after the page size is set. *)
UpdateRowsForResize(new_rpv, ok, cut) ==
    IF ResizeLoads(rows_per_view, new_rpv)
    THEN LoadVisibleRows(ResizeStart(visible_range), new_rpv, ok, cut)
    ELSE NoLoad

(* Mutation: the click listener stores the row's place in the window. *)
ClickedCell_WindowLocal(row_index, col_index) == <<row_index, col_index>>

(* The cell the click listener of a rendered cell stores. *)
ClickedCell(row_index, col_index) == <<visible_range.start + row_index, col_index>>

Event(ev, arg, r) ==
    [ev |-> ev, arg |-> arg, rpv |-> rows_per_view,
     fetch |-> r.fetch, reads |-> r.reads, ok |-> r.ok, prev_ok |-> last.ok]

-----------------------------------------------------------------------------
(* The program *)

Init ==
    /\ pc = "main"
    /\ file_rows \in 0..MaxRows
    /\ args \in [rows : RowLimits, headless : BOOLEAN]
    /\ preview = NoPreview
    /\ visible_rows = <<>>
    /\ visible_range = [start |-> 0, end |-> 0]
    /\ table_height = 0
    /\ rows_per_view = 0
    /\ selected_cell = NoCell
    /\ output = "none"
    /\ last = NoEvent
    /\ walk = 0
    /\ call = NoCall

ViewVars == <<visible_rows, visible_range, table_height, rows_per_view, selected_cell>>

(* Mutation: main goes on after a failed load_preview. *)
AfterLoadPreview_IgnoresError(ok) == "loaded"

(* Where main goes after load_preview: on, or out by the ? operator. *)
AfterLoadPreview(ok) == IF ok THEN "loaded" ELSE "exit_err"

(* main: load_preview, and the exit on its error. *)
LoadPreviewStep(fault, cut) ==
    /\ pc = "main"
    /\ LET r == LoadPreviewResult(file_rows, args.rows, fault, cut)
       IN  /\ preview' = r.preview
           /\ pc' = AfterLoadPreview(r.ok)
           /\ last' = [NoEvent EXCEPT !.ev = "load_preview", !.reads = r.reads, !.ok = r.ok]
    /\ UNCHANGED <<file_rows, args, ViewVars, output>>

(* main: the headless branch. *)
PrintToTerminal ==
    /\ pc = "loaded"
    /\ args.headless
    /\ output' = "stdout"
    /\ pc' = "exit_ok"
    /\ UNCHANGED <<file_rows, args, preview, ViewVars, last>>

(* launch_ui: the view is built and load_visible_rows(0) runs. *)
LaunchUi(window_height, ok, cut) ==
    /\ pc = "loaded"
    /\ ~args.headless
    /\ LET height == TableHeightForWindow(window_height)
           rpv == RowsPerView(height)
           r == LoadVisibleRows(0, rpv, ok, cut)
       IN  /\ table_height' = height
           /\ rows_per_view' = rpv
           /\ visible_range' = r.range
           /\ visible_rows' = r.rows
           /\ last' = [Event("launch", window_height, r) EXCEPT !.rpv = rpv]
    /\ selected_cell' = NoCell
    /\ output' = "window"
    /\ pc' = "ui"
    /\ UNCHANGED <<file_rows, args, preview>>

(* The window bounds observer. *)
Resize(window_height, ok, cut) ==
    /\ pc = "ui"
    /\ LET height == TableHeightForWindow(window_height)
           rpv == RowsPerView(height)
           r == UpdateRowsForResize(rpv, ok, cut)
       IN  /\ table_height' = height
           /\ rows_per_view' = rpv
           /\ visible_range' = r.range
           /\ visible_rows' = r.rows
           /\ last' = Event("resize", window_height, r)
    /\ UNCHANGED <<pc, file_rows, args, preview, selected_cell, output>>

(* The scroll wheel listener, for a wheel movement of rows_delta rows. *)
Scroll(rows_delta, ok, cut) ==
    /\ pc = "ui"
    /\ rows_delta # 0
    /\ LET r == ScrollView(rows_delta, ok, cut)
       IN  /\ visible_range' = r.range
           /\ visible_rows' = r.rows
           /\ last' = Event("scroll", rows_delta, r)
    /\ UNCHANGED <<pc, file_rows, args, preview, table_height, rows_per_view,
                   selected_cell, output>>

(* The mouse-down listener of the cell at row_index, col_index of the window. *)
Click(row_index, col_index) ==
    /\ pc = "ui"
    /\ row_index \in 0..(Len(visible_rows) - 1)
    /\ col_index \in 0..(Len(visible_rows[row_index + 1]) - 1)
    /\ selected_cell' = ClickedCell(row_index, col_index)
    /\ last' = Event("click", <<row_index, col_index>>, NoLoad)
    /\ UNCHANGED <<pc, file_rows, args, preview, visible_rows, visible_range,
                   table_height, rows_per_view, output>>

Cuts == 0..1

Next ==
    \/ \E fault \in Faults, cut \in Cuts :
          LoadPreviewStep(fault, cut) /\ UNCHANGED <<walk, call>>
    \/ PrintToTerminal /\ UNCHANGED <<walk, call>>
    \/ \E h \in WindowHeights, ok \in BOOLEAN, cut \in Cuts :
          LaunchUi(h, ok, cut) /\ UNCHANGED <<walk, call>>
    \/ \E h \in WindowHeights, ok \in BOOLEAN, cut \in Cuts :
          Resize(h, ok, cut) /\ UNCHANGED <<walk, call>>
    \/ \E d \in Deltas, ok \in BOOLEAN, cut \in Cuts :
          Scroll(d, ok, cut) /\ UNCHANGED <<walk, call>>
    \/ \E r \in 0..(Len(visible_rows) - 1), c \in 0..(Len(ColumnNames) - 1) :
          Click(r, c) /\ UNCHANGED <<walk, call>>

Spec == Init /\ [][Next]_vars

-----------------------------------------------------------------------------
(* A walk down the file: the initial load, then Scroll(+1) as many times   *)
(* as the file has rows, every fetch succeeding.                           *)

WalkLoadPreview ==
    /\ \E cut \in Cuts : LoadPreviewStep("none", cut)
    /\ UNCHANGED <<walk, call>>

WalkLaunchUi ==
    /\ \E h \in WindowHeights, cut \in Cuts : LaunchUi(h, TRUE, cut)
    /\ UNCHANGED <<walk, call>>

WalkScroll ==
    /\ pc = "ui"
    /\ walk < preview.row_count
    /\ \E cut \in Cuts : Scroll(1, TRUE, cut)
    /\ walk' = walk + 1
    /\ UNCHANGED call

NextWalk == WalkLoadPreview \/ WalkLaunchUi \/ WalkScroll

SpecWalk == Init /\ [][NextWalk]_vars

-----------------------------------------------------------------------------
(* Direct calls of the fetch functions, as the unit tests make them, one   *)
(* test per behaviour: load_preview on a written file, then rows_for_range *)
(* on the preview; or batches_to_rows on batches built by hand.            *)

RECURSIVE Sum(_)
Sum(sizes) == IF sizes = <<>> THEN 0 ELSE sizes[1] + Sum(Tail(sizes))

(* Batches of the given sizes holding the rows 0, 1, 2, ... in order. *)
BatchesOfSizes(sizes) ==
    [b \in 1..Len(sizes) |->
        [i \in 1..sizes[b] |-> FileRow(Sum(SubSeq(sizes, 1, b - 1)) + i - 1)]]

BatchSizes == UNION {[1..n -> 0..MaxBatchRows] : n \in 0..MaxBatches}

TestLoadPreview ==
    /\ call = NoCall
    /\ \E fault \in Faults, cut \in Cuts : LoadPreviewStep(fault, cut)
    /\ UNCHANGED <<walk, call>>

TestRowsForRange ==
    /\ pc = "loaded"
    /\ call = NoCall
    /\ \E start \in 0..(MaxRows + 1), end \in 0..(MaxRows + 2),
          ok \in BOOLEAN, cut \in 0..MaxBatchRows :
          call' = [fn |-> "rows_for_range", start |-> start, end |-> end,
                   readable |-> ok,
                   result |-> RowsForRange(preview, file_rows, start, end, ok, cut)]
    /\ UNCHANGED <<pc, file_rows, args, preview, ViewVars, output, last, walk>>

TestBatchesToRows ==
    /\ pc = "main"
    /\ call = NoCall
    /\ \E sizes \in BatchSizes, row_limit \in 0..MaxLimit :
          call' = [fn |-> "batches_to_rows", batches |-> BatchesOfSizes(sizes),
                   row_limit |-> row_limit,
                   result |-> BatchesToRows(BatchesOfSizes(sizes), row_limit)]
    /\ UNCHANGED <<pc, file_rows, args, preview, ViewVars, output, last, walk>>

TestLoadPreviewLimit ==
    /\ pc = "main"
    /\ call = NoCall
    /\ \E row_limit \in (0..MaxLimit) \cup {DefaultRows}, fault \in Faults,
          cut \in 0..MaxBatchRows :
          call' = [fn |-> "load_preview", row_limit |-> row_limit, fault |-> fault,
                   result |-> LoadPreviewResult(file_rows, row_limit, fault, cut)]
    /\ UNCHANGED <<pc, file_rows, args, preview, ViewVars, output, last, walk>>

NextFetch ==
    TestLoadPreview \/ TestRowsForRange \/ TestBatchesToRows \/ TestLoadPreviewLimit

SpecFetch == Init /\ [][NextFetch]_vars

-----------------------------------------------------------------------------
(* What the claims are stated with *)

Clamp(x, lo, hi) == Max(lo, Min(x, hi))

(* The display row of row i of the file. *)
ExpectedRow(i) == <<ToString(i), IF i % 4 = 3 THEN "null" ELSE ToString(100 + i)>>

(* The display rows from..to-1 of the file, none when to <= from. *)
ExpectedRows(from, to) == [i \in 1..(to - from) |-> ExpectedRow(from + i - 1)]

RowCount == preview.row_count

FetchEvent(e) == e.ev \in {"scroll", "resize"}

(* candidate_start of a Scroll(delta) event in the current state *)
CandidateStart(delta) ==
    Clamp(visible_range.start + delta, 0, Max(0, RowCount - rows_per_view))

(* C1: in every state of the interactive session (after the initial load   *)
(* and any scrolls, resizes and clicks, fetches succeeding or failing),    *)
(* visible_range.start <= visible_range.end <= row_count and               *)
(* visible_rows.len() == visible_range.end - visible_range.start.          *)
C1_RowWindowInvariant ==
    pc = "ui" =>
        /\ visible_range.start <= visible_range.end
        /\ visible_range.end <= RowCount
        /\ Len(visible_rows) = visible_range.end - visible_range.start

(* A failed resize has left a window of another page size in place, away   *)
(* from the top, with a cell selected.                                     *)
C1_Witness ==
    /\ pc = "ui"
    /\ last.ev = "resize" /\ ~last.ok
    /\ visible_range.start > 0
    /\ Len(visible_rows) > 0
    /\ Len(visible_rows) # Min(rows_per_view, RowCount - visible_range.start)
    /\ selected_cell # NoCell

(* C2: when the fetch of a Scroll or Resize event fails, visible_range and *)
(* visible_rows are what they were before the event and the controller     *)
(* goes on; the failed event read storage once (no retry), and an event    *)
(* after a failure that has to load reads storage once, afresh.            *)
C2_FailurePolicy ==
    [][ /\ (FetchEvent(last') /\ ~last'.ok) =>
              /\ visible_range' = visible_range
              /\ visible_rows' = visible_rows
              /\ pc' = "ui"
              /\ last'.reads = 1
        /\ (pc = "ui" /\ ~last.ok /\ FetchEvent(last')) =>
              /\ last'.reads <= 1
              /\ (last'.ev = "resize" \/ CandidateStart(last'.arg) # visible_range.start)
                     => (last'.reads = 1 /\ last'.fetch # <<>>)
      ]_vars

(* An event after a failed one fetched afresh and replaced the window. *)
C2_Witness ==
    /\ pc = "ui"
    /\ FetchEvent(last)
    /\ ~last.prev_ok
    /\ last.ok /\ last.reads = 1
    /\ visible_range.start > 0

(* C3: a Scroll(delta_rows) on a file with rows, whose candidate_start     *)
(* = clamp(start + delta_rows, 0, max(0, row_count - page_size)) differs   *)
(* from the current start and whose fetch succeeds, makes the window       *)
(* exactly [candidate_start, candidate_start + min(page_size, row_count -  *)
(* candidate_start)), holding those rows of the file.                      *)
C3_ScrollWindow ==
    [][ (last'.ev = "scroll" /\ RowCount > 0) =>
            LET candidate_start == CandidateStart(last'.arg)
                len == Min(rows_per_view, RowCount - candidate_start)
            IN  (candidate_start # visible_range.start /\ last'.ok) =>
                    /\ visible_range' = [start |-> candidate_start,
                                         end |-> candidate_start + len]
                    /\ visible_rows' = ExpectedRows(candidate_start, candidate_start + len)
      ]_vars

(* A scroll of more than one row has been clamped to the last full page. *)
C3_Witness ==
    /\ pc = "ui"
    /\ last.ev = "scroll" /\ last.arg > 1 /\ last.reads = 1 /\ last.ok
    /\ visible_range.start = RowCount - rows_per_view
    /\ visible_range.start = 1

(* C4: a Resize that changes page_size from P1 to P2 and whose fetch       *)
(* succeeds keeps visible_range.start and makes visible_range.end          *)
(* min(start + P2, row_count).                                             *)
C4_ResizePreservesStart ==
    [][ (last'.ev = "resize" /\ last'.ok /\ rows_per_view' # rows_per_view) =>
            /\ visible_range'.start = visible_range.start
            /\ visible_range'.end = Min(visible_range.start + rows_per_view', RowCount)
      ]_vars

(* A resize away from the top changed the page size and loaded the rest of *)
(* the file.                                                               *)
C4_Witness ==
    /\ pc = "ui"
    /\ last.ev = "resize" /\ last.ok /\ last.reads = 1
    /\ last.rpv # rows_per_view
    /\ visible_range.start > 0
    /\ visible_range.end = RowCount
    /\ visible_range.end < visible_range.start + rows_per_view

(* C5: walking down from the top with Scroll(+1), every fetch succeeding,  *)
(* visible_range.start never exceeds max(0, R - P), and after exactly R    *)
(* scrolls it equals max(0, R - P).                                        *)
C5_WalkClamped ==
    pc = "ui" =>
        /\ visible_range.start <= Max(0, RowCount - rows_per_view)
        /\ walk = RowCount => visible_range.start = Max(0, RowCount - rows_per_view)

(* The walk is over on a file of more than one page. *)
C5_Witness ==
    /\ pc = "ui"
    /\ walk = RowCount
    /\ RowCount > rows_per_view + 1
    /\ visible_range.start = RowCount - rows_per_view

(* C6: a Scroll whose clamped candidate_start is the current start makes   *)
(* no fetch and leaves visible_range, visible_rows, page_size and the      *)
(* selection as they were.                                                 *)
C6_OverscrollNoOp ==
    [][ (last'.ev = "scroll" /\ CandidateStart(last'.arg) = visible_range.start) =>
            /\ last'.fetch = <<>>
            /\ last'.reads = 0
            /\ UNCHANGED <<visible_range, visible_rows, rows_per_view, selected_cell>>
      ]_vars

(* A scroll down at the last full page of a file with a cell selected. *)
C6_Witness ==
    /\ pc = "ui"
    /\ last.ev = "scroll" /\ last.arg > 0 /\ last.fetch = <<>>
    /\ visible_range.start > 0
    /\ visible_range.start = RowCount - rows_per_view
    /\ selected_cell # NoCell

(* C7, as claimed: a Resize whose recomputed page_size equals the current  *)
(* page_size makes no fetch and leaves the window unchanged.               *)
C7_Original ==
    [][ (last'.ev = "resize" /\ rows_per_view' = rows_per_view) =>
            /\ last'.fetch = <<>>
            /\ last'.reads = 0
            /\ UNCHANGED <<visible_range, visible_rows>>
      ]_vars

(* C7, amended: a Resize whose recomputed page_size P equals the current   *)
(* page_size still fetches [start, min(start + P, row_count)) once when    *)
(* the file has rows (and nothing when it has none); the window is         *)
(* unchanged when that fetch fails or when the window already spans that   *)
(* range, and becomes that range when the fetch succeeds.                  *)
C7_ResizeSamePage ==
    [][ (last'.ev = "resize" /\ rows_per_view' = rows_per_view) =>
            LET start == visible_range.start
                end == Min(start + rows_per_view, RowCount)
            IN  /\ RowCount > 0 => (last'.reads = 1 /\ last'.fetch = <<start, end>>)
                /\ RowCount = 0 => (last'.reads = 0 /\ last'.fetch = <<>>)
                /\ (~last'.ok \/ visible_range.end = end) =>
                       UNCHANGED <<visible_range, visible_rows>>
                /\ last'.ok => visible_range' = [start |-> start, end |-> end]
      ]_vars

(* A resize to the same page size, coming after an event whose fetch       *)
(* failed, fetched again away from the top.                                *)
C7_Witness ==
    /\ pc = "ui"
    /\ last.ev = "resize" /\ last.rpv = rows_per_view
    /\ last.reads = 1 /\ last.ok /\ ~last.prev_ok
    /\ visible_range.start > 0

(* C8: on a file without rows the window is 0..0 with no rows after the    *)
(* initial load and after every Scroll and Resize, and the controller      *)
(* never fetches.                                                          *)
C8_EmptyFile ==
    (pc = "ui" /\ RowCount = 0) =>
        /\ visible_range = [start |-> 0, end |-> 0]
        /\ visible_rows = <<>>
        /\ last.fetch = <<>>
        /\ last.reads = 0

(* A scroll has been handled on the empty file after a resize changed the  *)
(* page size.                                                              *)
C8_Witness ==
    /\ pc = "ui"
    /\ RowCount = 0
    /\ last.ev = "scroll"
    /\ rows_per_view # RowsPerView(TableHeightForWindow(DefaultWindowHeight))
    /\ rows_per_view # RowsPerView(MIN_TABLE_HEIGHT)

(* C9: rows_for_range(start..end) with start < row_count on a readable     *)
(* file succeeds and returns, in order, exactly the rows with indices      *)
(* start .. min(end, row_count), min(end - start, row_count - start) of    *)
(* them (none when end <= start); a range past the last row is truncated.  *)
C9_RangeSlice ==
    (call.fn = "rows_for_range" /\ call.start < RowCount /\ call.readable) =>
        /\ call.result.ok
        /\ call.result.rows = ExpectedRows(call.start, Min(call.end, RowCount))
        /\ Len(call.result.rows) =
              Min(SatSub(call.end, call.start), RowCount - call.start)

(* A range from inside the file to beyond its end returned several rows. *)
C9_Witness ==
    /\ call.fn = "rows_for_range"
    /\ call.readable
    /\ call.start > 0
    /\ call.end > RowCount
    /\ Len(call.result.rows) >= 2

RECURSIVE DisplayRowsOf(_)
(* The display rows of the batches, in batch order. *)
DisplayRowsOf(batches) ==
    IF batches = <<>> THEN <<>>
    ELSE [i \in 1..Len(batches[1]) |-> ExpectedRow(batches[1][i][1].v)]
         \o DisplayRowsOf(Tail(batches))

(* C10: batches_to_rows returns exactly the first min(row_limit, total     *)
(* rows of the batches) rows in batch order, for every row_limit, 0        *)
(* included.                                                               *)
C10_TruncatesToLimit ==
    call.fn = "batches_to_rows" =>
        LET all == DisplayRowsOf(call.batches)
        IN  call.result = SubSeq(all, 1, Min(call.row_limit, Len(all)))

(* C11: rows_for_range with start at or beyond row_count returns an empty  *)
(* sequence as a success, whatever the end of the range and whether or not *)
(* the storage can be read; the storage is not opened.                     *)
C11_OutOfBoundsIsEmpty ==
    (call.fn = "rows_for_range" /\ call.start >= RowCount) =>
        /\ call.result.ok
        /\ call.result.rows = <<>>
        /\ call.result.reads = 0

(* A range of several rows beyond the end of a file with rows, asked while *)
(* the storage cannot be read.                                             *)
C11_Witness ==
    /\ call.fn = "rows_for_range"
    /\ RowCount > 0
    /\ call.start > RowCount
    /\ call.end > call.start + 1
    /\ ~call.readable
    /\ call.result.ok

(* C12: a click on row r, column c of the window, the window starting at   *)
(* S, sets the selection to (S + r, c); every Scroll and Resize, its fetch *)
(* succeeding or failing, leaves the selection as it was, also when the    *)
(* selected row leaves the window.                                         *)
C12_SelectionIsGlobal ==
    [][ /\ last'.ev = "click" =>
              selected_cell' = <<visible_range.start + last'.arg[1], last'.arg[2]>>
        /\ (pc = "ui" /\ last'.ev # "click") => selected_cell' = selected_cell
      ]_vars

(* The selected row has been scrolled out of the window, by a scroll that  *)
(* came after an event whose fetch failed.                                 *)
C12_Witness ==
    /\ pc = "ui"
    /\ selected_cell # NoCell
    /\ selected_cell[1] < visible_range.start
    /\ selected_cell[2] = 1
    /\ last.ev = "scroll" /\ last.ok /\ last.reads = 1
    /\ ~last.prev_ok

(* C13: load_preview on a readable file, for every row_limit, yields the   *)
(* first min(row_limit, rows of the file) rows of the file, and a          *)
(* row_count and a column_count that are the file's, whatever row_limit.   *)
C13_PreviewRespectsLimit ==
    (call.fn = "load_preview" /\ call.fault = "none") =>
        /\ call.result.ok
        /\ Len(call.result.preview.rows) = Min(call.row_limit, file_rows)
        /\ call.result.preview.rows = ExpectedRows(0, Min(call.row_limit, file_rows))
        /\ call.result.preview.row_count = file_rows
        /\ call.result.preview.column_count = Len(ColumnNames)

(* A row limit below the number of rows of the file. *)
C13_Witness ==
    /\ call.fn = "load_preview"
    /\ call.result.ok
    /\ call.row_limit > 1
    /\ call.row_limit < file_rows
    /\ call.result.preview.row_count > Len(call.result.preview.rows)

(* C14: when load_preview fails (opening the file, its metadata, its       *)
(* columns or the initial fetch), main ends with the error and stays       *)
(* ended, and neither the window nor the headless output is produced; the  *)
(* window is shown only after a successful load_preview with headless off, *)
(* the headless output only with headless on.                              *)
C14_StartupFailureIsFatal ==
    /\ [](/\ pc = "exit_err" => (output = "none" /\ preview = NoPreview /\ ~last.ok)
          /\ preview = NoPreview => output = "none"
          /\ output = "window" => (preview # NoPreview /\ ~args.headless /\ pc = "ui")
          /\ output = "stdout" => (preview # NoPreview /\ args.headless /\ pc = "exit_ok")
          /\ pc = "ui" => output = "window")
    /\ [][pc = "exit_err" => pc' = "exit_err"]_vars

(* main has ended on a failed initial fetch, with headless off. *)
C14_Witness ==
    /\ pc = "exit_err"
    /\ last.ev = "load_preview" /\ last.reads = 1 /\ ~last.ok
    /\ ~args.headless
    /\ file_rows > 0

(* C15: every fetch the controller issues (initial load, Scroll, Resize)   *)
(* asks for a start < row_count and a count with 1 <= count <= page_size   *)
(* and start + count <= row_count.                                         *)
C15_BoundedFetch ==
    (pc = "ui" /\ last.fetch # <<>>) =>
        LET start == last.fetch[1]
            count == last.fetch[2] - last.fetch[1]
        IN  /\ last.ev \in {"launch", "scroll", "resize"}
            /\ start >= 0 /\ start < RowCount
            /\ 1 <= count /\ count <= rows_per_view
            /\ start + count <= RowCount

(* A scroll fetched a full page that ends before the end of the file. *)
C15_Witness ==
    /\ pc = "ui"
    /\ last.ev = "scroll" /\ last.fetch # <<>>
    /\ last.fetch[1] > 0
    /\ last.fetch[2] - last.fetch[1] = rows_per_view
    /\ last.fetch[2] < RowCount

(* C16: rows_for_range on a range of no rows (its end not above its start) *)
(* returns an empty sequence as a success for any start, inside the file   *)
(* or beyond it, and does not open the storage, readable or not.           *)
C16_EmptyRangeNoStorage ==
    (call.fn = "rows_for_range" /\ call.end <= call.start) =>
        /\ call.result.ok
        /\ call.result.rows = <<>>
        /\ call.result.reads = 0

(* An inverted range starting inside the file, asked while the storage     *)
(* cannot be read.                                                         *)
C16_Witness ==
    /\ call.fn = "rows_for_range"
    /\ call.start < RowCount
    /\ call.end < call.start
    /\ ~call.readable
    /\ call.result.ok

(* C17: in every state of the interactive session page_size is             *)
(* max(1, floor(table height / row height)) of the table height last       *)
(* reported, hence at least 1; after a Resize (and after the launch) that  *)
(* height is the one of the event's window, whether or not the event's     *)
(* fetch succeeded and whatever page_size was before.                      *)
C17_PageSizeRecomputed ==
    pc = "ui" =>
        /\ rows_per_view >= 1
        /\ rows_per_view = Max(1, table_height \div ROW_HEIGHT)
        /\ last.ev \in {"resize", "launch"} =>
              table_height = Max(last.arg - TABLE_PADDING, MIN_TABLE_HEIGHT)

(* A resize whose fetch failed has shrunk the page. *)
C17_Witness ==
    /\ pc = "ui"
    /\ last.ev = "resize" /\ last.reads = 1 /\ ~last.ok
    /\ last.rpv > rows_per_view
    /\ table_height = MIN_TABLE_HEIGHT

(* C18: a Scroll with delta_rows > 0 never decreases visible_range.start   *)
(* and a Scroll with delta_rows < 0 never increases it, in every state of  *)
(* the session, the states after a Resize included.                        *)
C18_ScrollDirection ==
    [][ last'.ev = "scroll" =>
            /\ last'.arg > 0 => visible_range'.start >= visible_range.start
            /\ last'.arg < 0 => visible_range'.start <= visible_range.start
      ]_vars

LoadEvent(e) == e.ev \in {"launch", "scroll", "resize"}

(* C19, as claimed: visible_rows.len() <= page_size in every state of the  *)
(* session, and after every event whose fetch succeeded on a file with     *)
(* rows visible_rows.len() == min(page_size, row_count - start) >= 1.      *)
C19_Original ==
    /\ [](pc = "ui" => Len(visible_rows) <= rows_per_view)
    /\ [][ (LoadEvent(last') /\ last'.reads = 1 /\ last'.ok) =>
              /\ Len(visible_rows') =
                    Min(rows_per_view', RowCount - visible_range'.start)
              /\ Len(visible_rows') >= 1
         ]_vars

(* C19, amended: visible_rows.len() <= page_size holds after the launch    *)
(* and is kept by every event except a Resize whose fetch fails, which     *)
(* keeps the rows fetched for the page size before it; after every event   *)
(* whose fetch succeeded on a file with rows visible_rows.len() ==         *)
(* min(page_size, row_count - start) >= 1, which is at most page_size.     *)
C19_WindowWithinPage ==
    [][ /\ (LoadEvent(last') /\ last'.reads = 1 /\ last'.ok) =>
              /\ Len(visible_rows') =
                    Min(rows_per_view', RowCount - visible_range'.start)
              /\ Len(visible_rows') >= 1
              /\ Len(visible_rows') <= rows_per_view'
        /\ last'.ev = "launch" => Len(visible_rows') <= rows_per_view'
        /\ (/\ pc = "ui"
            /\ Len(visible_rows) <= rows_per_view
            /\ ~(last'.ev = "resize" /\ ~last'.ok))
              => Len(visible_rows') <= rows_per_view'
        /\ (pc = "ui" /\ last'.ev = "resize" /\ ~last'.ok) =>
              visible_rows' = visible_rows
      ]_vars

(* A successful fetch, coming after a failed one, has loaded the short     *)
(* last page of the file.                                                  *)
C19_Witness ==
    /\ pc = "ui"
    /\ LoadEvent(last) /\ last.reads = 1 /\ last.ok /\ ~last.prev_ok
    /\ visible_range.start > 0
    /\ Len(visible_rows) = RowCount - visible_range.start
    /\ Len(visible_rows) < rows_per_view

=============================================================================
